---- MODULE Spec2Model ----
(***************************************************************************)
(* gbstats: the frequentist / sequential t-test engine                     *)
(* (packages/stats/gbstats/frequentist/tests.py) and the sample-ratio      *)
(* mismatch check (packages/stats/gbstats/utils.py).                       *)
(*                                                                         *)
(* Numbers.  A Python float is modelled as an extended rational <<n, d>>:  *)
(*   d > 0            the finite value n/d, in lowest terms                *)
(*   <<1, 0>>, <<-1, 0>>   +inf, -inf                                      *)
(*   <<0, 0>>         nan                                                  *)
(*   <<0, -1>>        "the expression raised ZeroDivisionError"            *)
(* +, -, * and / are exact.  Python's own float division raises on a zero  *)
(* divisor (PyDiv); numpy's float64 division returns inf / nan (NpDiv).    *)
(* An operand that raised makes the whole expression raise.                *)
(***************************************************************************)
EXTENDS Integers, Sequences

\* ---------------------------------------------------------------------
\* Bounds of the model
\* ---------------------------------------------------------------------
\* means and unadjusted means range over 0..MaxMean
MaxMean == 2
\* sample sizes range over 1..MaxN
MaxN == 2
\* np.sqrt is computed to the next multiple of 1/Grid
Grid == 16
\* np.exp saturates to +inf above 2^MaxExp2 (float64 does above 2^1024)
MaxExp2 == 12
\* check_srm: number of arms and largest observed count
MaxArms == 3
MaxCount == 2

\* ---------------------------------------------------------------------
\* Extended rational arithmetic
\* ---------------------------------------------------------------------
ZDE == <<0, -1>>
NaN == <<0, 0>>
PosInf == <<1, 0>>
NegInf == <<-1, 0>>
Zero == <<0, 1>>
One == <<1, 1>>

Abs(i) == IF i < 0 THEN -i ELSE i
Sign(i) == IF i < 0 THEN -1 ELSE IF i > 0 THEN 1 ELSE 0

RECURSIVE GCD(_, _)
GCD(a, b) == IF b = 0 THEN a ELSE GCD(b, a % b)

\* n/d with d >= 0, in lowest terms
Norm(n, d) ==
    IF d = 0 THEN <<Sign(n), 0>>
    ELSE LET g == GCD(Abs(n), d) IN <<n \div g, d \div g>>

Int2R(i) == <<i, 1>>

Raised(x) == x[2] < 0
IsNaN(x) == x = NaN
IsInf(x) == x[2] = 0 /\ x[1] # 0
IsFin(x) == x[2] > 0

Neg(x) == IF Raised(x) THEN ZDE ELSE <<-x[1], x[2]>>

Add(x, y) ==
    IF Raised(x) \/ Raised(y) THEN ZDE
    ELSE IF IsNaN(x) \/ IsNaN(y) THEN NaN
    ELSE IF IsInf(x) /\ IsInf(y) THEN (IF x = y THEN x ELSE NaN)
    ELSE IF IsInf(x) THEN x
    ELSE IF IsInf(y) THEN y
    ELSE LET g == GCD(x[2], y[2])
         IN Norm(x[1] * (y[2] \div g) + y[1] * (x[2] \div g), (x[2] \div g) * y[2])

Sub(x, y) == Add(x, Neg(y))

Mul(x, y) ==
    IF Raised(x) \/ Raised(y) THEN ZDE
    ELSE IF IsNaN(x) \/ IsNaN(y) THEN NaN
    ELSE LET g1 == IF x[1] = 0 \/ y[2] = 0 THEN 1 ELSE GCD(Abs(x[1]), y[2])
             g2 == IF y[1] = 0 \/ x[2] = 0 THEN 1 ELSE GCD(Abs(y[1]), x[2])
         IN Norm((x[1] \div g1) * (y[1] \div g2), (x[2] \div g2) * (y[2] \div g1))

\* 1/x as float64 computes it: 1/0 = inf, 1/inf = 0
Inv(x) ==
    IF Raised(x) THEN ZDE
    ELSE IF IsNaN(x) THEN NaN
    ELSE IF IsInf(x) THEN Zero
    ELSE IF x[1] = 0 THEN PosInf
    ELSE <<Sign(x[1]) * x[2], Abs(x[1])>>

\* numpy float64 division: x/0 is +-inf or nan, never an exception
NpDiv(x, y) == Mul(x, Inv(y))

\* Python float / int division: a zero divisor raises ZeroDivisionError
PyDiv(x, y) == IF y = Zero THEN ZDE ELSE NpDiv(x, y)

Sq(x) == Mul(x, x)

\* comparisons; any comparison with nan is false
Leq(x, y) ==
    IF Raised(x) \/ Raised(y) \/ IsNaN(x) \/ IsNaN(y) THEN FALSE
    ELSE IF IsInf(x) \/ IsInf(y) THEN
        (x = y) \/ x = NegInf \/ y = PosInf
    ELSE LET g == GCD(x[2], y[2])
         IN x[1] * (y[2] \div g) <= y[1] * (x[2] \div g)

Lt(x, y) == Leq(x, y) /\ x # y

RAbs(x) == IF Raised(x) THEN ZDE ELSE <<Abs(x[1]), x[2]>>

\* ---------------------------------------------------------------------
\* numpy / scipy functions.  The library is not part of the repository: each
\* function is a rational approximation that keeps the IEEE special cases
\* (nan, +-inf), the sign and the monotonicity of the real one, and returns
\* its result rounded away from zero to a multiple of 1/Grid.
\* ---------------------------------------------------------------------
CeilDiv(a, b) == (a + b - 1) \div b

\* finite x rounded away from zero to a multiple of 1/Grid
Quant(x) ==
    IF ~IsFin(x) THEN x
    ELSE Norm(Sign(x[1]) * CeilDiv(Abs(x[1]) * Grid, x[2]), Grid)

RECURSIVE SqrtSearch(_, _, _)
SqrtSearch(m, lo, hi) ==
    IF lo >= hi THEN lo
    ELSE LET mid == (lo + hi) \div 2
         IN IF mid * mid >= m THEN SqrtSearch(m, lo, mid)
            ELSE SqrtSearch(m, mid + 1, hi)

\* least k with k*k >= m
CeilSqrt(m) == SqrtSearch(m, 0, IF m < 46340 THEN m ELSE 46340)

\* np.sqrt: nan below zero, least multiple of 1/Grid whose square is >= x
NpSqrt(x) ==
    IF Raised(x) THEN ZDE
    ELSE IF IsNaN(x) \/ x = NegInf THEN NaN
    ELSE IF x = PosInf THEN PosInf
    ELSE IF x[1] < 0 THEN NaN
    ELSE Norm(CeilSqrt(CeilDiv(x[1] * Grid * Grid, x[2])), Grid)

\* a/b = 2^k * m with 1 <= m < 2: <<k, numerator of m, denominator of m>>
RECURSIVE LogParts(_, _, _)
LogParts(a, b, k) ==
    IF a >= 2 * b THEN LogParts(a, 2 * b, k + 1)
    ELSE IF a < b THEN LogParts(2 * a, b, k - 1)
    ELSE <<k, a, b>>

\* np.log: log(0) = -inf, nan below zero;
\* ln(2^k * m) ~ k * 7/10 + 2(m-1)/(m+1)
NpLog(x) ==
    IF Raised(x) THEN ZDE
    ELSE IF IsNaN(x) \/ x = NegInf THEN NaN
    ELSE IF x = PosInf THEN PosInf
    ELSE IF x[1] < 0 THEN NaN
    ELSE IF x[1] = 0 THEN NegInf
    ELSE LET p == LogParts(x[1], x[2], 0)
         IN Quant(Add(Norm(7 * p[1], 10), Norm(2 * (p[2] - p[3]), p[2] + p[3])))

RECURSIVE Pow2(_)
Pow2(k) == IF k = 0 THEN 1 ELSE 2 * Pow2(k - 1)

\* floor of the finite rational y
Floor(y) == y[1] \div y[2]

\* np.exp: e^x = 2^(x / ln 2) ~ 2^k * (1 + f), k + f = x * 10/7, 0 <= f < 1;
\* overflows to +inf above 2^MaxExp2 and underflows to 0 below 2^-MaxExp2
NpExp(x) ==
    IF Raised(x) THEN ZDE
    ELSE IF IsNaN(x) THEN NaN
    ELSE IF x = PosInf THEN PosInf
    ELSE IF x = NegInf THEN Zero
    ELSE LET y == Mul(x, <<10, 7>>)
             k == Floor(y)
             f == Sub(y, Int2R(k))
         IN IF k >= MaxExp2 THEN PosInf
            ELSE IF k < -MaxExp2 THEN Zero
            ELSE IF k >= 0 THEN Quant(Mul(Int2R(Pow2(k)), Add(One, f)))
            ELSE Quant(Mul(<<1, Pow2(-k)>>, Add(One, f)))

\* scipy.stats.t.ppf(q, df): nan unless 0 <= q <= 1 and df > 0; -inf at 0,
\* +inf at 1.  Normal quantile z ~ ln(q/(1-q)) / 1.7, then the first
\* Cornish-Fisher term t ~ z * (1 + (z^2 + 1) / (4 df)).
TPpf(q, df) ==
    IF Raised(q) \/ Raised(df) THEN ZDE
    ELSE IF IsNaN(q) \/ IsNaN(df) \/ ~Lt(Zero, df) THEN NaN
    ELSE IF ~(Leq(Zero, q) /\ Leq(q, One)) THEN NaN
    ELSE LET z == Quant(Mul(NpLog(NpDiv(q, Sub(One, q))), <<10, 17>>))
         IN IF ~IsFin(z) THEN z
            ELSE IF df = PosInf THEN z
            ELSE Quant(Mul(z, Add(One, NpDiv(Add(Sq(z), One), Mul(Int2R(4), df)))))

\* scipy.stats.t.cdf(x, df): nan unless df > 0; logistic approximation
\* 1 / (1 + e^(-1.7 x)) of the bell-shaped cdf, 1/2 at 0
TCdf(x, df) ==
    IF Raised(x) \/ Raised(df) THEN ZDE
    ELSE IF IsNaN(x) \/ IsNaN(df) \/ ~Lt(Zero, df) THEN NaN
    ELSE Quant(Inv(Add(One, NpExp(Mul(x, <<-17, 10>>)))))

\* scipy.stats.chi2.sf(x, df): nan unless df > 0; 1 at and below x = 0;
\* e^(-x/df) (e^(-x/2) is the exact value for df = 2)
Chi2Sf(x, df) ==
    IF Raised(x) THEN ZDE
    ELSE IF IsNaN(x) \/ df <= 0 THEN NaN
    ELSE IF Leq(x, Zero) THEN One
    ELSE NpExp(Neg(NpDiv(x, Int2R(df))))

\* ---------------------------------------------------------------------
\* gbstats.messages (imported by tests.py, lines 9-13)
\* ---------------------------------------------------------------------
BASELINE_VARIATION_ZERO_MESSAGE == "ZERO_BASELINE_VARIATION"
ZERO_NEGATIVE_VARIANCE_MESSAGE == "ZERO_NEGATIVE_VARIANCE"
ZERO_SCALED_VARIATION_MESSAGE == "ZERO_SCALED_VARIATION"
None == "None"

\* ---------------------------------------------------------------------
\* utils.py
\* ---------------------------------------------------------------------
\* variance of M / D (delta method); Python arithmetic, so mean_d = 0 raises
variance_of_ratios(mean_m, var_m, mean_d, var_d, cov_m_d) ==
    Sub(Add(PyDiv(var_m, Sq(mean_d)),
            PyDiv(Mul(var_d, Sq(mean_m)), Sq(Sq(mean_d)))),
        PyDiv(Mul(Mul(Int2R(2), cov_m_d), mean_m), Mul(Sq(mean_d), mean_d)))

RECURSIVE SumInts(_)
SumInts(s) == IF s = <<>> THEN 0 ELSE Head(s) + SumInts(Tail(s))

RECURSIVE SumFloats(_)
SumFloats(s) == IF s = <<>> THEN Zero ELSE Add(Head(s), SumFloats(Tail(s)))

\* srm_loop with the skip test written as weights[i] < 0
RECURSIVE srm_loop_skips_negative_only(_, _, _, _, _, _)
srm_loop_skips_negative_only(users, weights, total_observed, total_weight, i, x) ==
    IF i > Len(users) THEN [exc |-> None, x |-> x]
    ELSE IF i > Len(weights) THEN [exc |-> "IndexError", x |-> NaN]
    ELSE IF Lt(weights[i], Zero)
    THEN srm_loop_skips_negative_only(users, weights, total_observed, total_weight,
                                      i + 1, x)
    ELSE LET e == Mul(PyDiv(weights[i], total_weight), Int2R(total_observed))
             x1 == Add(x, PyDiv(Sq(Sub(Int2R(users[i]), e)), e))
         IN IF Raised(x1) THEN [exc |-> "ZeroDivisionError", x |-> NaN]
            ELSE srm_loop_skips_negative_only(users, weights, total_observed,
                                              total_weight, i + 1, x1)

\* the loop of check_srm from arm i on (arms are numbered from 1 here), x the
\* statistic so far: the statistic after the last arm, or the exception that
\* ended the loop
RECURSIVE srm_loop(_, _, _, _, _, _)
srm_loop(users, weights, total_observed, total_weight, i, x) ==
    IF i > Len(users) THEN [exc |-> None, x |-> x]
    ELSE IF i > Len(weights) THEN [exc |-> "IndexError", x |-> NaN]
    ELSE IF Leq(weights[i], Zero)
    THEN srm_loop(users, weights, total_observed, total_weight, i + 1, x)
    ELSE LET e == Mul(PyDiv(weights[i], total_weight), Int2R(total_observed))
             x1 == Add(x, PyDiv(Sq(Sub(Int2R(users[i]), e)), e))
         IN IF Raised(x1) THEN [exc |-> "ZeroDivisionError", x |-> NaN]
            ELSE srm_loop(users, weights, total_observed, total_weight, i + 1, x1)

\* lines 44-50: the chi-squared statistic
srm_statistic(users, weights) ==
    srm_loop(users, weights, SumInts(users), SumFloats(weights), 1, Zero)

\* the second argument of chi2.sf
srm_dof(users) == Len(users) - 1

\* check_srm without the early return on a zero total
check_srm_without_zero_total_return(users, weights) ==
    LET s == srm_statistic(users, weights)
    IN IF s.exc # None
       THEN [exc |-> s.exc, value |-> NaN, x |-> NaN, dof |-> -1]
       ELSE [exc |-> None, value |-> Chi2Sf(s.x, srm_dof(users)),
             x |-> s.x, dof |-> srm_dof(users)]

\* what a call of check_srm does: exc, the value returned, and the locals
\* x and dof at the return (nan / -1 when the call ended before setting them)
check_srm(users, weights) ==
    IF SumInts(users) = 0
    THEN [exc |-> None, value |-> One, x |-> NaN, dof |-> -1]
    ELSE LET s == srm_statistic(users, weights)
         IN IF s.exc # None
            THEN [exc |-> s.exc, value |-> NaN, x |-> NaN, dof |-> -1]
            ELSE [exc |-> None, value |-> Chi2Sf(s.x, srm_dof(users)),
                  x |-> s.x, dof |-> srm_dof(users)]

\* ---------------------------------------------------------------------
\* frequentist/tests.py
\* ---------------------------------------------------------------------
DefaultTuning == 5000

frequentist_diff(mean_a, mean_b, relative, mean_a_unadjusted) ==
    LET denom == IF mean_a_unadjusted = Zero THEN mean_a ELSE mean_a_unadjusted
    IN IF relative THEN PyDiv(Sub(mean_b, mean_a), denom)
       ELSE Sub(mean_b, mean_a)

frequentist_variance(var_a, mean_a, n_a, var_b, mean_b, n_b, relative) ==
    IF relative
    THEN variance_of_ratios(mean_b, PyDiv(var_b, Int2R(n_b)),
                            mean_a, PyDiv(var_a, Int2R(n_a)), Zero)
    ELSE Add(PyDiv(var_b, Int2R(n_b)), PyDiv(var_a, Int2R(n_a)))

\* TTest.variance handing on the means of the point estimate
variance_from_means(t) ==
    frequentist_variance(t.stat_a.variance, t.stat_a.mean, t.stat_a.n,
                         t.stat_b.variance, t.stat_b.mean, t.stat_b.n,
                         t.relative)

\* TTest.variance: the unadjusted means are the ones handed on
variance(t) ==
    frequentist_variance(t.stat_a.variance, t.stat_a.unadjusted_mean, t.stat_a.n,
                         t.stat_b.variance, t.stat_b.unadjusted_mean, t.stat_b.n,
                         t.relative)

point_estimate(t) ==
    frequentist_diff(t.stat_a.mean, t.stat_b.mean, t.relative,
                     t.stat_a.unadjusted_mean)

\* the divisor is a numpy float64: no exception on zero
critical_value(t) ==
    NpDiv(Sub(point_estimate(t), t.test_value), NpSqrt(variance(t)))

\* Welch-Satterthwaite; all operands are Python numbers, so n = 1 raises
dof(t) ==
    PyDiv(Sq(Add(PyDiv(t.stat_b.variance, Int2R(t.stat_b.n)),
                 PyDiv(t.stat_a.variance, Int2R(t.stat_a.n)))),
          Add(PyDiv(Sq(t.stat_b.variance),
                    Int2R(t.stat_b.n * t.stat_b.n * (t.stat_b.n - 1))),
              PyDiv(Sq(t.stat_a.variance),
                    Int2R(t.stat_a.n * t.stat_a.n * (t.stat_a.n - 1)))))

\* BaseABTest._has_zero_variance (gbstats/models/tests.py)
_has_zero_variance(t) ==
    Leq(t.stat_a.variance, Zero) \/ Leq(t.stat_b.variance, Zero)

\* SequentialTwoSidedTTest.rho
rho(t) ==
    LET l == NpLog(t.alpha)
    IN NpSqrt(NpDiv(Add(Mul(Int2R(-2), l),
                        NpLog(Add(Mul(Int2R(-2), l), One))),
                    t.sequential_tuning_parameter))

\* Python's min(x, y): y only when y < x
PyMin(x, y) == IF Raised(x) \/ Raised(y) THEN ZDE ELSE IF Lt(y, x) THEN y ELSE x

TwoSided_p_value(t) ==
    Mul(Int2R(2), Sub(One, TCdf(RAbs(critical_value(t)), dof(t))))

TwoSided_confidence_interval(t) ==
    LET width == Mul(TPpf(Sub(One, PyDiv(t.alpha, Int2R(2))), dof(t)),
                     NpSqrt(variance(t)))
    IN <<Sub(point_estimate(t), width), Add(point_estimate(t), width)>>

Greater_p_value(t) == Sub(One, TCdf(critical_value(t), dof(t)))

Greater_confidence_interval(t) ==
    LET width == Mul(TPpf(Sub(One, t.alpha), dof(t)), NpSqrt(variance(t)))
    IN <<Sub(point_estimate(t), width), PosInf>>

Lesser_p_value(t) == TCdf(critical_value(t), dof(t))

Lesser_confidence_interval(t) ==
    LET width == Mul(TPpf(Sub(One, t.alpha), dof(t)), NpSqrt(variance(t)))
    IN <<NegInf, Sub(point_estimate(t), width)>>

Sequential_confidence_interval(t) ==
    LET N == Int2R(t.stat_a.n + t.stat_b.n)
        r == rho(t)
        s2 == Mul(variance(t), N)
        nr2p1 == Add(Mul(N, Sq(r)), One)
        width == Mul(NpSqrt(s2),
                     NpSqrt(NpDiv(Mul(Mul(Int2R(2), nr2p1),
                                      NpLog(NpDiv(NpSqrt(nr2p1), t.alpha))),
                                  Sq(Mul(N, r)))))
    IN <<Sub(point_estimate(t), width), Add(point_estimate(t), width)>>

Sequential_p_value(t) ==
    LET N == Int2R(t.stat_a.n + t.stat_b.n)
        st2 == NpDiv(Mul(Sq(Sub(point_estimate(t), t.test_value)), N), variance(t))
        tr2p1 == Add(Mul(N, Sq(rho(t))), One)
        evalue == NpDiv(NpExp(NpDiv(Mul(Sq(rho(t)), st2), Mul(Int2R(2), tr2p1))),
                        NpSqrt(tr2p1))
    IN PyMin(NpDiv(One, evalue), One)

\* the abstract properties, dispatched on the class of the test
p_value(t) ==
    CASE t.variant = "TwoSidedTTest" -> TwoSided_p_value(t)
      [] t.variant = "OneSidedTreatmentGreaterTTest" -> Greater_p_value(t)
      [] t.variant = "OneSidedTreatmentLesserTTest" -> Lesser_p_value(t)
      [] t.variant = "SequentialTwoSidedTTest" -> Sequential_p_value(t)

confidence_interval(t) ==
    CASE t.variant = "TwoSidedTTest" -> TwoSided_confidence_interval(t)
      [] t.variant = "OneSidedTreatmentGreaterTTest" -> Greater_confidence_interval(t)
      [] t.variant = "OneSidedTreatmentLesserTTest" -> Lesser_confidence_interval(t)
      [] t.variant = "SequentialTwoSidedTTest" -> Sequential_confidence_interval(t)

\* FrequentistTestResult
TestResult(expected, ci, pv, dist, mean, stddev, error_message) ==
    [expected |-> expected, ci |-> ci, p_value |-> pv,
     uplift |-> [dist |-> dist, mean |-> mean, stddev |-> stddev],
     error_message |-> error_message]

\* a field of the result could not be evaluated: the constructor call raised
AnyRaised(r) ==
    \/ Raised(r.expected) \/ Raised(r.ci[1]) \/ Raised(r.ci[2])
    \/ Raised(r.p_value) \/ Raised(r.uplift.mean) \/ Raised(r.uplift.stddev)

\* what a call does: returns a result (exc = None) or raises
Returns(r) == [exc |-> None, value |-> r]
NoValue == TestResult(NaN, <<NaN, NaN>>, NaN, "none", NaN, NaN, None)
Raises(e) == [exc |-> e, value |-> NoValue]
Outcome(r) == IF AnyRaised(r) THEN Raises("ZeroDivisionError") ELSE Returns(r)

_default_output(error_message) ==
    TestResult(Zero, <<Zero, Zero>>, One, "normal", Zero, Zero, error_message)

\* lines 159-168: the result before scaling
unscaled_result(t) ==
    TestResult(point_estimate(t), confidence_interval(t), p_value(t),
               "normal", point_estimate(t), NpSqrt(variance(t)), None)

\* scale_result returning the default output without its message
scale_result_without_message(t, result, p, d) ==
    IF p = Zero THEN Returns(_default_output(None))
    ELSE LET adjustment == PyDiv(PyDiv(Int2R(t.stat_b.n), p), d)
         IN Outcome(TestResult(Mul(result.expected, adjustment),
                               <<Mul(result.ci[1], adjustment),
                                 Mul(result.ci[2], adjustment)>>,
                               result.p_value,
                               result.uplift.dist,
                               Mul(result.uplift.mean, adjustment),
                               Mul(result.uplift.stddev, adjustment),
                               None))

scale_result(t, result, p, d) ==
    IF p = Zero THEN Returns(_default_output(ZERO_SCALED_VARIATION_MESSAGE))
    ELSE LET adjustment == PyDiv(PyDiv(Int2R(t.stat_b.n), p), d)
         IN Outcome(TestResult(Mul(result.expected, adjustment),
                               <<Mul(result.ci[1], adjustment),
                                 Mul(result.ci[2], adjustment)>>,
                               result.p_value,
                               result.uplift.dist,
                               Mul(result.uplift.mean, adjustment),
                               Mul(result.uplift.stddev, adjustment),
                               None))

\* lines 159-173: the computation after the guards
computed_result(t) ==
    LET result == unscaled_result(t)
    IN IF AnyRaised(result) THEN Raises("ZeroDivisionError")
       ELSE IF t.scaled
       THEN scale_result(t, result, t.traffic_proportion_b, t.phase_length_days)
       ELSE Returns(result)

\* compute_result without the check of unadjusted_mean (lines 154-155)
compute_result_without_unadjusted_check(t) ==
    IF t.stat_a.mean = Zero
    THEN Returns(_default_output(BASELINE_VARIATION_ZERO_MESSAGE))
    ELSE IF _has_zero_variance(t)
    THEN Returns(_default_output(ZERO_NEGATIVE_VARIANCE_MESSAGE))
    ELSE computed_result(t)

\* compute_result without the variance guard (lines 156-157)
compute_result_without_variance_guard(t) ==
    IF t.stat_a.mean = Zero
    THEN Returns(_default_output(BASELINE_VARIATION_ZERO_MESSAGE))
    ELSE IF t.stat_a.unadjusted_mean = Zero
    THEN Returns(_default_output(BASELINE_VARIATION_ZERO_MESSAGE))
    ELSE computed_result(t)

compute_result(t) ==
    IF t.stat_a.mean = Zero
    THEN Returns(_default_output(BASELINE_VARIATION_ZERO_MESSAGE))
    ELSE IF t.stat_a.unadjusted_mean = Zero
    THEN Returns(_default_output(BASELINE_VARIATION_ZERO_MESSAGE))
    ELSE IF _has_zero_variance(t)
    THEN Returns(_default_output(ZERO_NEGATIVE_VARIANCE_MESSAGE))
    ELSE computed_result(t)

\* ---------------------------------------------------------------------
\* Inputs
\* ---------------------------------------------------------------------
Variants == {"TwoSidedTTest", "OneSidedTreatmentGreaterTTest",
             "OneSidedTreatmentLesserTTest", "SequentialTwoSidedTTest"}
DifferenceTypes == {"absolute", "relative", "scaled"}
Means == {Int2R(i) : i \in 0..MaxMean}
Variances == {Int2R(-1), Zero, One}
Alphas == {<<1, 20>>, <<3, 4>>}
TrafficProportions == {Zero, <<1, 2>>}
PhaseLengths == {Zero, Int2R(10)}

TestStatistics ==
    [mean : Means, unadjusted_mean : Means, variance : Variances, n : 1..MaxN]

\* BaseConfig defaults traffic_proportion_b = 1 and phase_length_days = 1;
\* they are read in scaled mode only
Configs ==
    [alpha : Alphas, test_value : {Zero}, difference_type : {"absolute", "relative"},
     traffic_proportion_b : {One}, phase_length_days : {One}]
    \cup
    [alpha : Alphas, test_value : {Zero}, difference_type : {"scaled"},
     traffic_proportion_b : TrafficProportions, phase_length_days : PhaseLengths]

\* TTest.__init__ / SequentialTwoSidedTTest.__init__
NewTest(variant, stat_a, stat_b, config) ==
    [variant |-> variant, stat_a |-> stat_a, stat_b |-> stat_b,
     alpha |-> config.alpha, test_value |-> config.test_value,
     relative |-> (config.difference_type = "relative"),
     scaled |-> (config.difference_type = "scaled"),
     traffic_proportion_b |-> config.traffic_proportion_b,
     phase_length_days |-> config.phase_length_days,
     sequential_tuning_parameter |-> Int2R(DefaultTuning)]

\* sequences over S of length 0..n
SeqUpTo(S, n) == UNION {[1..k -> S] : k \in 0..n}

Counts == 0..MaxCount
Weights == {Int2R(-1), Zero, <<1, 2>>, One}

\* ---------------------------------------------------------------------
\* State
\* ---------------------------------------------------------------------
VARIABLES pc, test, outcome, users, weights, srm
vars == <<pc, test, outcome, users, weights, srm>>

NoCall == [exc |-> None, value |-> NaN, x |-> NaN, dof |-> -1]

DefaultStatistic == [mean |-> One, unadjusted_mean |-> One, variance |-> One, n |-> MaxN]
DefaultConfig ==
    [alpha |-> <<1, 20>>, test_value |-> Zero, difference_type |-> "relative",
     traffic_proportion_b |-> One, phase_length_days |-> One]

\* a test of one of the four classes has been constructed
Init ==
    /\ pc = "constructed"
    /\ \E v \in Variants, a \in TestStatistics, b \in TestStatistics, c \in Configs :
          test = NewTest(v, a, b, c)
    /\ outcome = Raises(None)
    /\ users = <<>> /\ weights = <<>> /\ srm = NoCall

ComputeResult ==
    /\ pc = "constructed"
    /\ outcome' = compute_result(test)
    /\ pc' = IF outcome'.exc = None THEN "returned" ELSE "raised"
    /\ UNCHANGED <<test, users, weights, srm>>

Next == ComputeResult

Spec == Init /\ [][Next]_vars

\* the reporting layer is about to call check_srm(users, weights)
SrmInit ==
    /\ pc = "srm"
    /\ users \in SeqUpTo(Counts, MaxArms)
    /\ weights \in SeqUpTo(Weights, MaxArms)
    /\ srm = NoCall
    /\ test = NewTest("TwoSidedTTest", DefaultStatistic, DefaultStatistic, DefaultConfig)
    /\ outcome = Raises(None)

CheckSrm ==
    /\ pc = "srm"
    /\ srm' = check_srm(users, weights)
    /\ pc' = IF srm'.exc = None THEN "srm_returned" ELSE "srm_raised"
    /\ UNCHANGED <<test, outcome, users, weights>>

SrmNext == CheckSrm

SpecSrm == SrmInit /\ [][SrmNext]_vars

\* ---------------------------------------------------------------------
\* Properties
\* ---------------------------------------------------------------------
Called == pc \in {"returned", "raised"}
Returned == pc = "returned"
SrmCalled == pc \in {"srm_returned", "srm_raised"}

\* the uninformative result, field by field
Uninformative(r, message) ==
    /\ r.expected = Zero
    /\ r.ci = <<Zero, Zero>>
    /\ r.p_value = One
    /\ r.uplift.mean = Zero
    /\ r.uplift.stddev = Zero
    /\ r.error_message = message

BaselineZero == test.stat_a.mean = Zero \/ test.stat_a.unadjusted_mean = Zero
VarianceNotPositive ==
    Leq(test.stat_a.variance, Zero) \/ Leq(test.stat_b.variance, Zero)
GuardsPassed == ~BaselineZero /\ ~VarianceNotPositive

\* C1: compute_result never raises: on every input with n >= 1 in both arms
\* and 0 < alpha < 1 (all inputs of Init are such) it returns a result.
C1_NeverRaises == pc # "raised"

\* C2: if stat_a.mean = 0 or stat_a.unadjusted_mean = 0, the call returns the
\* uninformative result (expected 0, ci [0, 0], p_value 1, uplift 0 / 0) with
\* the baseline-is-zero message, whatever the class, the difference type and
\* the other inputs.
C2_BaselineZeroDefault ==
    (Called /\ BaselineZero) =>
        /\ outcome.exc = None
        /\ Uninformative(outcome.value, BASELINE_VARIATION_ZERO_MESSAGE)

C2_Witness ==
    /\ Returned
    /\ test.stat_a.mean # Zero
    /\ test.stat_a.unadjusted_mean = Zero
    /\ test.variant = "SequentialTwoSidedTTest"
    /\ test.scaled
    /\ Lt(Zero, test.stat_a.variance) /\ Lt(Zero, test.stat_b.variance)
    /\ outcome.value.error_message = BASELINE_VARIATION_ZERO_MESSAGE

\* C3 as stated: if stat_a.variance = 0 the result carries the zero/negative
\* variance message, regardless of the means of either arm.
C3_ZeroVarianceAnyMeans ==
    (Called /\ test.stat_a.variance = Zero) =>
        /\ outcome.exc = None
        /\ outcome.value.error_message = ZERO_NEGATIVE_VARIANCE_MESSAGE

\* C3 amended: if stat_a.variance = 0 and neither stat_a.mean nor
\* stat_a.unadjusted_mean is 0, the result carries the zero/negative variance
\* message, regardless of the other means.
C3_ZeroVarianceNonzeroBaseline ==
    (Called /\ test.stat_a.variance = Zero /\ ~BaselineZero) =>
        /\ outcome.exc = None
        /\ outcome.value.error_message = ZERO_NEGATIVE_VARIANCE_MESSAGE

C3_Witness ==
    /\ Returned
    /\ test.stat_a.variance = Zero
    /\ ~BaselineZero
    /\ test.stat_b.mean = Zero
    /\ test.stat_a.n = 1
    /\ outcome.value.error_message = ZERO_NEGATIVE_VARIANCE_MESSAGE

\* C4: in scaled mode with traffic_proportion_b = 0, once the baseline and
\* variance guards have passed, the call returns the uninformative result
\* with the zero-scaled-variation message (no division by the proportion).
C4_ZeroTrafficDefault ==
    (Called /\ test.scaled /\ test.traffic_proportion_b = Zero /\ GuardsPassed) =>
        /\ outcome.exc = None
        /\ Uninformative(outcome.value, ZERO_SCALED_VARIATION_MESSAGE)

\* n_b / traffic_proportion_b / phase_length_days as a number
Adjustment ==
    NpDiv(NpDiv(Int2R(test.stat_b.n), test.traffic_proportion_b),
          test.phase_length_days)

\* r is u with expected, both ci bounds, uplift mean and stddev times k,
\* p_value and the uplift family untouched
ScaledBy(r, u, k) ==
    /\ r.expected = Mul(u.expected, k)
    /\ r.ci = <<Mul(u.ci[1], k), Mul(u.ci[2], k)>>
    /\ r.uplift.mean = Mul(u.uplift.mean, k)
    /\ r.uplift.stddev = Mul(u.uplift.stddev, k)
    /\ r.p_value = u.p_value
    /\ r.uplift.dist = u.uplift.dist

\* C5: in scaled mode with traffic_proportion_b # 0 the result is the
\* unscaled result with expected, ci, uplift mean and stddev multiplied by
\* n_b / traffic_proportion_b / phase_length_days and p_value and the family
\* tag unchanged; in the other modes the unscaled result is returned as is.
C5_ScalingIsLinear ==
    (Called /\ GuardsPassed /\ ~AnyRaised(unscaled_result(test))) =>
        /\ (test.scaled /\ test.traffic_proportion_b # Zero) =>
              /\ outcome.exc = None
              /\ ScaledBy(outcome.value, unscaled_result(test), Adjustment)
        /\ ~test.scaled => outcome = Returns(unscaled_result(test))

ErrorCondition ==
    \/ BaselineZero
    \/ VarianceNotPositive
    \/ (test.scaled /\ test.traffic_proportion_b = Zero)

\* C6: in every result returned, error_message is set exactly when
\* stat_a.mean = 0, or stat_a.unadjusted_mean = 0, or a variance is <= 0, or
\* (scaled mode and traffic_proportion_b = 0); a result with error_message
\* has expected 0, ci [0, 0], p_value 1 and uplift 0 / 0; a result without
\* it holds the point estimate, the interval, the p-value and the square
\* root of the variance (times the adjustment in scaled mode).
C6_ErrorMessageIffDegenerate ==
    Returned =>
        LET r == outcome.value
            k == IF test.scaled THEN Adjustment ELSE One
        IN /\ (r.error_message # None) <=> ErrorCondition
           /\ (r.error_message # None) => Uninformative(r, r.error_message)
           /\ (r.error_message = None) =>
                 /\ r.expected = Mul(point_estimate(test), k)
                 /\ r.ci = <<Mul(confidence_interval(test)[1], k),
                             Mul(confidence_interval(test)[2], k)>>
                 /\ r.p_value = p_value(test)
                 /\ r.uplift.mean = Mul(point_estimate(test), k)
                 /\ r.uplift.stddev = Mul(NpSqrt(variance(test)), k)

C6_Witness ==
    /\ Returned
    /\ test.scaled /\ test.traffic_proportion_b = Zero
    /\ GuardsPassed
    /\ test.stat_b.mean # test.stat_a.mean
    /\ outcome.value.error_message = ZERO_SCALED_VARIATION_MESSAGE

\* the arms of weight > 0 (an arm without a weight is kept)
RECURSIVE KeepArms(_, _, _)
KeepArms(s, w, i) ==
    IF i > Len(s) THEN <<>>
    ELSE IF i <= Len(w) /\ Leq(w[i], Zero) THEN KeepArms(s, w, i + 1)
    ELSE <<s[i]>> \o KeepArms(s, w, i + 1)

FilteredUsers == KeepArms(users, weights, 1)
FilteredWeights == KeepArms(weights, weights, 1)

\* the removed arms hold no users and no weight
RemovedArmsEmpty ==
    \A i \in 1..Len(weights) :
        Leq(weights[i], Zero) => (weights[i] = Zero /\ (i <= Len(users) => users[i] = 0))

\* C7 as stated: with a non-zero total of the counts, check_srm(users,
\* weights) uses the chi-squared statistic and the degrees of freedom (hence
\* returns the p-value) of the call on the lists without the arms of
\* weight <= 0.
C7_SameAsFiltered ==
    (SrmCalled /\ SumInts(users) # 0) =>
        srm = check_srm(FilteredUsers, FilteredWeights)

\* C7 amended: check_srm leaves the arms of weight <= 0 out of the
\* chi-squared sum only; they still count in the total of the counts, in the
\* total weight and in the degrees of freedom.  With a non-zero total of the
\* counts, when every arm of weight <= 0 has weight 0 and count 0, the call
\* uses the chi-squared statistic of the call on the lists without those arms
\* (or raises the same exception), and its degrees of freedom are
\* len(users) - 1: those of the call on the shorter lists plus the number of
\* arms removed.
C7_SkippedArmsStillCount ==
    (SrmCalled /\ SumInts(users) # 0 /\ RemovedArmsEmpty) =>
        LET f == check_srm(FilteredUsers, FilteredWeights)
        IN /\ srm.exc = f.exc
           /\ srm.x = f.x
           /\ srm.exc = None =>
                 /\ srm.dof = Len(users) - 1
                 /\ srm.dof = f.dof + (Len(users) - Len(FilteredUsers))

C7_Witness ==
    /\ pc = "srm_returned"
    /\ SumInts(users) # 0
    /\ Len(users) = Len(weights)
    /\ RemovedArmsEmpty
    /\ Len(FilteredUsers) < Len(users)
    /\ Len(FilteredUsers) >= 2
    /\ srm.x # Zero
    /\ srm.dof = Len(FilteredUsers)

\* C8: if the total of the observed counts is 0, check_srm returns exactly 1
\* whatever the weights (all zero, negative, fewer than the counts), before
\* any expected count or statistic is computed.
C8_ZeroTotalReturnsOne ==
    (SrmCalled /\ SumInts(users) = 0) =>
        /\ srm.exc = None
        /\ srm.value = One
        /\ srm.x = NaN /\ srm.dof = -1

C8_Witness ==
    /\ pc = "srm_returned"
    /\ SumInts(users) = 0
    /\ Len(users) >= 2
    /\ Len(weights) < Len(users)
    /\ srm.value = One

\* varianceOfRatios(mean_m, var_m, mean_d, var_d, 0) written out
RatioVariance(mean_m, var_m, mean_d, var_d) ==
    Add(NpDiv(var_m, Sq(mean_d)), NpDiv(Mul(var_d, Sq(mean_m)), Sq(Sq(mean_d))))

VarOverN(stat) == NpDiv(stat.variance, Int2R(stat.n))

\* the pooled variance equals v, and the result reports its square root
PooledVarianceIs(v) ==
    /\ variance(test) = v
    /\ ~test.scaled => outcome.value.uplift.stddev = NpSqrt(v)

Computed == Returned /\ outcome.value.error_message = None

C10_IntervalContainsEstimate ==
    (/\ Computed
     /\ Lt(test.alpha, <<1, 2>>)
     /\ (test.scaled => Lt(Zero, Adjustment))) =>
        /\ Leq(outcome.value.ci[1], outcome.value.expected)
        /\ Leq(outcome.value.expected, outcome.value.ci[2])
====
